---- MODULE Spec2Model ----
(***************************************************************************)
(* The review screen of application_review (src/src/main.rs): the catalog  *)
(* load, the ReviewState signal and its two index-addressed handlers, the  *)
(* StarRating widget's local signals and the submission tasks.             *)
(*                                                                         *)
(* f32 values are held in half-star units: the integer h stands for the    *)
(* f32 h/2, so 2.5 is 5 and a star index k is 2*k.  u8 values are plain    *)
(* integers in 0..255.  Indices are 0-based as in the source; the Vec of   *)
(* reviews is a sequence whose element at index i is reviews[i + 1].       *)
(***************************************************************************)
EXTENDS Integers, Sequences, FiniteSets, TLC

VARIABLES
    server,             \* cfg(feature = "server"): the build has a backend
    payload,            \* the compiled-in assets/questions.json
    reviews,            \* signal Vec<Review>
    loading,            \* signal bool
    submission_status,  \* signal String
    stars,              \* the mounted StarRating widgets' signals, by index
    loadTask,           \* the task spawned by use_effect: "pending" | "done"
    subs,               \* the tasks spawned by submit_reviews, in start order
    clicked,            \* history: ReviewState and status at each submit action
    writes,             \* history: the calls of submit_to_mongodb, by task
    lastDone,           \* history: the task that completed last, 0 for none
    edits,              \* number of rating / advice events delivered so far
    call,               \* the last handler call of the handler harness
    pointer,            \* the star under the pointer, <<index, star_index>> or <<>>
    glyph               \* the last call of render_star and its result

vars == <<server, payload, reviews, loading, submission_status, stars,
          loadTask, subs, clicked, writes, lastDone, edits, call, pointer, glyph>>

-----------------------------------------------------------------------------
(* Bounds of the model *)

MaxEdits == 2

MaxSubmits == 2

\* Largest index handed to a handler by the handler harness.
MaxIndex == 3

-----------------------------------------------------------------------------
(* Data model *)

U8Max == 255

StarCount == 5

MkReview(c, q, r, a) == [category |-> c, question |-> q, rating |-> r, advice |-> a]

\* u8 as f32 (line 140) and star_index as f32 (lines 191, 195): exact.
AsF32(n) == 2 * n

\* f32 as u8 (line 144): truncates toward zero and saturates at 0 and 255.
AsU8(h) == IF h <= 0 THEN 0 ELSE IF h \div 2 > U8Max THEN U8Max ELSE h \div 2

RECURSIVE TrimStart(_)
TrimStart(s) ==
    IF Len(s) > 0 /\ SubSeq(s, 1, 1) \in {" ", "\t", "\n"}
    THEN TrimStart(SubSeq(s, 2, Len(s)))
    ELSE s

\* review.question.trim().is_empty() (line 134); trimming the front of an
\* all-whitespace string already empties it.
IsBlank(q) == Len(TrimStart(q)) = 0

-----------------------------------------------------------------------------
(* Inputs *)

\* Entries a questions.json can carry: serde requires all four fields.
Q1 == MkReview("Skills", "Q1", 0, "")

Q2Rated == MkReview("Culture", "Q2", 7, "old")

QBlank == MkReview("Culture", "  ", 0, "")

\* The "reviews" arrays of the questions.json files considered.
Catalogs == { <<>>, <<Q1>>, <<QBlank, Q1>>, <<Q2Rated, QBlank, Q1>> }

ParseErrors == {"expected value at line 1 column 1"}

Payloads ==
    {[parsed |-> TRUE, reviews |-> rs, error |-> ""] : rs \in Catalogs}
    \cup {[parsed |-> FALSE, reviews |-> <<>>, error |-> e] : e \in ParseErrors}

Texts == {"fine"}

\* f32 values handed to on_rate by the handler harness, in half-star units:
\* -1.0, 0.0, 2.5, 3.0, 5.0, 7.0, 300.0
RatingValues == {-2, 0, 5, 6, 10, 14, 600}

BackendErrors == {"duplicate key"}

NoPointer == <<>>

NoGlyph == [star_index |-> 0, hover |-> 0, rating |-> 0, out |-> ""]

NoCall == [op |-> "none", index |-> 0, value |-> 0, text |-> "", before |-> <<>>]

-----------------------------------------------------------------------------
(* load_questions and the load effect *)

\* Mutant: a loader that seeds fresh records, dropping the payload's rating
\* and advice.
load_questions_fresh(p) ==
    IF p.parsed
    THEN [ok |-> TRUE,
          val |-> [i \in DOMAIN p.reviews |->
                     MkReview(p.reviews[i].category, p.reviews[i].question, 0, "")],
          err |-> ""]
    ELSE [ok |-> FALSE, val |-> <<>>, err |-> p.error]

\* serde_json::from_str(questions_json)? ; Ok(data.reviews)
load_questions(p) ==
    IF p.parsed THEN [ok |-> TRUE, val |-> p.reviews, err |-> ""]
    ELSE [ok |-> FALSE, val |-> <<>>, err |-> p.error]

\* Mutant: the loop numbers only the rendered (non-blank) questions, so the
\* n-th rendered widget carries index n.
MountStarsFiltered(rs) ==
    [i \in 0..(Cardinality({j \in 1..Len(rs) : ~IsBlank(rs[j].question)}) - 1) |->
        [initial_rating |-> [some |-> TRUE, val |-> 0], on_rate |-> TRUE,
         rating |-> 0, hover_rating |-> 0]]

\* Mutant: the widgets are mounted without an initial_rating.
MountStarsUnrated(rs) ==
    [i \in {j \in 0..(Len(rs) - 1) : ~IsBlank(rs[j + 1].question)} |->
        [initial_rating |-> [some |-> FALSE, val |-> 0], on_rate |-> TRUE,
         rating |-> 0, hover_rating |-> 0]]

\* Option<f32>
None == [some |-> FALSE, val |-> 0]

Some(x) == [some |-> TRUE, val |-> x]

UnwrapOr(o, d) == IF o.some THEN o.val ELSE d

\* A mounted StarRating: its two props and its two signals,
\* rating = use_signal(|| initial_rating.unwrap_or(0.0)), hover_rating = 0.0.
\* on_rate is TRUE when a handler is supplied.
StarRatingNew(initial_rating, on_rate) ==
    [initial_rating |-> initial_rating, on_rate |-> on_rate,
     rating |-> UnwrapOr(initial_rating, 0), hover_rating |-> 0]

\* The StarRating widgets the question-block loop mounts: one per record
\* whose question is not blank, keyed by the record's index, with
\* initial_rating = review.rating as f32 and the on_rate closure of that index.
MountStars(rs) ==
    [i \in {j \in 0..(Len(rs) - 1) : ~IsBlank(rs[j + 1].question)} |->
        StarRatingNew(Some(AsF32(rs[i + 1].rating)), TRUE)]

LoadStatus(e) == "Error loading questions: " \o e

\* Mutant: the Err arm reports the error but leaves the loading flag set.
LoadDoneStuck ==
    /\ loadTask = "pending"
    /\ LET r == load_questions(payload)
       IN  IF r.ok
           THEN /\ reviews' = r.val
                /\ stars' = MountStars(r.val)
                /\ loading' = FALSE
                /\ UNCHANGED submission_status
           ELSE /\ submission_status' = LoadStatus(r.err)
                /\ UNCHANGED <<reviews, stars, loading>>
    /\ loadTask' = "done"
    /\ UNCHANGED <<server, payload, subs, clicked, writes, lastDone, edits, call,
                   pointer, glyph>>

LoadDone ==
    /\ loadTask = "pending"
    /\ LET r == load_questions(payload)
       IN  IF r.ok
           THEN /\ reviews' = r.val
                /\ stars' = MountStars(r.val)
                /\ UNCHANGED submission_status
           ELSE /\ submission_status' = LoadStatus(r.err)
                /\ UNCHANGED <<reviews, stars>>
    /\ loading' = FALSE
    /\ loadTask' = "done"
    /\ UNCHANGED <<server, payload, subs, clicked, writes, lastDone, edits, call,
                   pointer, glyph>>

-----------------------------------------------------------------------------
(* The form and its handlers *)

\* Mutant: the form is rendered whatever the loading flag says.
FormAlwaysMounted == TRUE

\* if loading() { return rsx!{ "Loading questions..." } }
FormMounted == ~loading

\* Mutant: an index past the end is clamped to the last record.
OnRateLast(rs, index, rating) ==
    IF Len(rs) = 0 THEN rs
    ELSE LET i == IF index < Len(rs) THEN index ELSE Len(rs) - 1
         IN  [rs EXCEPT ![i + 1].rating = AsU8(rating)]

\* on_rate: reviews.write().get_mut(index) -> rating = rating as u8
OnRate(rs, index, rating) ==
    IF index >= 0 /\ index < Len(rs)
    THEN [rs EXCEPT ![index + 1].rating = AsU8(rating)]
    ELSE rs

\* Mutant: the handler replaces the whole record by a fresh one.
OnInputFresh(rs, index, value) ==
    IF index >= 0 /\ index < Len(rs)
    THEN [rs EXCEPT ![index + 1] =
              MkReview(rs[index + 1].category, rs[index + 1].question, 0, value)]
    ELSE rs

\* oninput: reviews.write().get_mut(index) -> advice = event.value()
OnInput(rs, index, value) ==
    IF index >= 0 /\ index < Len(rs)
    THEN [rs EXCEPT ![index + 1].advice = value]
    ELSE rs

\* StarRating onmouseenter of star star_index: hover_rating.set(star_index as f32)
OnMouseEnter(index, star_index) ==
    stars' = [stars EXCEPT ![index].hover_rating = AsF32(star_index)]

\* Mutant: leaving a star keeps the hover value.
OnMouseLeaveKeep(index) == UNCHANGED stars

\* StarRating onmouseleave: hover_rating.set(0.0)
OnMouseLeave(index) ==
    stars' = [stars EXCEPT ![index].hover_rating = 0]

\* Mutant: a click commits the half star below the clicked one.
OnClickHalf(index, star_index) ==
    LET new_rating == AsF32(star_index) - 1
    IN  /\ stars' = [stars EXCEPT ![index].rating = new_rating]
        /\ IF stars[index].on_rate
           THEN reviews' = OnRate(reviews, index, new_rating)
           ELSE UNCHANGED reviews

\* StarRating onclick of star star_index: rating.set(new_rating), then the
\* handler, when there is one; the page's handler is the on_rate closure of
\* the widget's index.
OnClick(index, star_index) ==
    LET new_rating == AsF32(star_index)
    IN  /\ stars' = [stars EXCEPT ![index].rating = new_rating]
        /\ IF stars[index].on_rate
           THEN reviews' = OnRate(reviews, index, new_rating)
           ELSE UNCHANGED reviews

\* A click on star star_index of the widget bound to index.
ClickStar(index, star_index) ==
    /\ FormMounted
    /\ index \in DOMAIN stars
    /\ edits < MaxEdits
    /\ OnClick(index, star_index)
    /\ edits' = edits + 1
    /\ UNCHANGED <<server, payload, loading, submission_status, loadTask,
                   subs, clicked, writes, lastDone, call, pointer, glyph>>

\* textarea oninput in the question block of index.
InputAdvice(index, value) ==
    /\ FormMounted
    /\ index \in DOMAIN stars
    /\ edits < MaxEdits
    /\ reviews' = OnInput(reviews, index, value)
    /\ edits' = edits + 1
    /\ UNCHANGED <<server, payload, loading, submission_status, stars, loadTask,
                   subs, clicked, writes, lastDone, call, pointer, glyph>>

-----------------------------------------------------------------------------
(* submit_reviews and the submission tasks *)

\* let reviews_data = reviews.read().clone();  taken in the event handler,
\* before the task is spawned.
Snapshot == reviews

\* Mutant: an in-flight guard refuses a submit while a task is pending.
SubmitClickGuarded ==
    /\ FormMounted
    /\ Len(subs) < MaxSubmits
    /\ \A id \in DOMAIN subs : subs[id].pc = "done"
    /\ subs' = Append(subs, [reviews_data |-> Snapshot, pc |-> "spawned", err |-> ""])
    /\ clicked' = Append(clicked, [reviews |-> reviews, status |-> submission_status])
    /\ writes' = Append(writes, <<>>)
    /\ UNCHANGED <<server, payload, reviews, loading, submission_status, stars,
                   loadTask, lastDone, edits, call, pointer, glyph>>

\* Mutant: a new submit cancels the tasks still pending.
SubmitClickCancels ==
    /\ FormMounted
    /\ Len(subs) < MaxSubmits
    /\ subs' = Append([id \in DOMAIN subs |->
                          IF subs[id].pc = "spawned"
                          THEN [subs[id] EXCEPT !.pc = "cancelled"]
                          ELSE subs[id]],
                      [reviews_data |-> Snapshot, pc |-> "spawned", err |-> ""])
    /\ clicked' = Append(clicked, [reviews |-> reviews, status |-> submission_status])
    /\ writes' = Append(writes, <<>>)
    /\ UNCHANGED <<server, payload, reviews, loading, submission_status, stars,
                   loadTask, lastDone, edits, call, pointer, glyph>>

\* onsubmit of the form: clone the signal and spawn the task.
SubmitClick ==
    /\ FormMounted
    /\ Len(subs) < MaxSubmits
    /\ subs' = Append(subs, [reviews_data |-> Snapshot, pc |-> "spawned", err |-> ""])
    /\ clicked' = Append(clicked, [reviews |-> reviews, status |-> submission_status])
    /\ writes' = Append(writes, <<>>)
    /\ UNCHANGED <<server, payload, reviews, loading, submission_status, stars,
                   loadTask, lastDone, edits, call, pointer, glyph>>

\* Mutant: the task reads the signal when it runs instead of the clone.
SubmitArgLate(id) == reviews

\* The Vec moved into submit_to_mongodb(reviews_data) by task id.
SubmitArg(id) == subs[id].reviews_data

SubmitOkStatus == "Reviews submitted successfully!"

\* Mutant: a fixed text that drops the backend's message.
SubmitErrStatusFixed(e) == "Error submitting reviews"

\* format!("Error submitting reviews: {}", e)
SubmitErrStatus(e) == "Error submitting reviews: " \o e

\* Mutant: the web build's status leaves the count out.
WebStatusNoCount(n) == "Would submit reviews (web build)"

\* format!("Would submit {} reviews (web build)", reviews_data.len())
WebStatus(n) == "Would submit " \o ToString(n) \o " reviews (web build)"

\* Mutant: a failed write resets the form to a fresh load.
SubmitServerReset(id, e) ==
    /\ server
    /\ id \in DOMAIN subs
    /\ subs[id].pc = "spawned"
    /\ writes' = [writes EXCEPT ![id] = Append(@, [docs |-> SubmitArg(id), err |-> e])]
    /\ submission_status' = IF e = "" THEN SubmitOkStatus ELSE SubmitErrStatus(e)
    /\ subs' = [subs EXCEPT ![id].pc = "done", ![id].err = e]
    /\ lastDone' = id
    /\ reviews' = IF e = "" THEN reviews ELSE load_questions(payload).val
    /\ UNCHANGED <<server, payload, loading, stars, loadTask, clicked, edits, call,
                   pointer, glyph>>

\* Mutant: a failed write leaves the task spawned, to be tried again.
SubmitServerRetry(id, e) ==
    /\ server
    /\ id \in DOMAIN subs
    /\ subs[id].pc = "spawned"
    /\ writes' = [writes EXCEPT ![id] = Append(@, [docs |-> SubmitArg(id), err |-> e])]
    /\ submission_status' = IF e = "" THEN SubmitOkStatus ELSE SubmitErrStatus(e)
    /\ subs' = [subs EXCEPT ![id].pc = IF e = "" THEN "done" ELSE "spawned",
                            ![id].err = e]
    /\ lastDone' = id
    /\ UNCHANGED <<server, payload, reviews, loading, stars, loadTask, clicked,
                   edits, call, pointer, glyph>>

\* The server build's task: submit_to_mongodb(reviews_data).await (connect,
\* insert_many) answers e, "" for Ok(()) or the error's message, and the
\* match arm sets the status.
SubmitServer(id, e) ==
    /\ server
    /\ id \in DOMAIN subs
    /\ subs[id].pc = "spawned"
    /\ writes' = [writes EXCEPT ![id] = Append(@, [docs |-> SubmitArg(id), err |-> e])]
    /\ submission_status' = IF e = "" THEN SubmitOkStatus ELSE SubmitErrStatus(e)
    /\ subs' = [subs EXCEPT ![id].pc = "done", ![id].err = e]
    /\ lastDone' = id
    /\ UNCHANGED <<server, payload, reviews, loading, stars, loadTask, clicked,
                   edits, call, pointer, glyph>>

\* The web-only build's task: no backend call.
SubmitWeb(id) ==
    /\ ~server
    /\ id \in DOMAIN subs
    /\ subs[id].pc = "spawned"
    /\ submission_status' = WebStatus(Len(SubmitArg(id)))
    /\ subs' = [subs EXCEPT ![id].pc = "done"]
    /\ lastDone' = id
    /\ UNCHANGED <<server, payload, reviews, loading, stars, loadTask, clicked,
                   writes, edits, call, pointer, glyph>>

Init ==
    /\ server \in BOOLEAN
    /\ payload \in Payloads
    /\ reviews = <<>>
    /\ loading = TRUE
    /\ submission_status = ""
    /\ stars = <<>>
    /\ loadTask = "pending"
    /\ subs = <<>>
    /\ clicked = <<>>
    /\ writes = <<>>
    /\ lastDone = 0
    /\ edits = 0
    /\ call = NoCall
    /\ pointer = NoPointer
    /\ glyph = NoGlyph

-----------------------------------------------------------------------------
(* Handler harness: the two closures of the question block applied to      *)
(* arbitrary arguments, on a ReviewState seeded by the load.               *)

InitHandlers ==
    /\ server = TRUE
    /\ payload \in {p \in Payloads : p.parsed}
    /\ reviews = load_questions(payload).val
    /\ loading = FALSE
    /\ submission_status = ""
    /\ stars = MountStars(reviews)
    /\ loadTask = "done"
    /\ subs = <<>>
    /\ clicked = <<>>
    /\ writes = <<>>
    /\ lastDone = 0
    /\ edits = 0
    /\ call = NoCall
    /\ pointer = NoPointer
    /\ glyph = NoGlyph

CallOnRate(index, rating) ==
    /\ edits < MaxEdits
    /\ reviews' = OnRate(reviews, index, rating)
    /\ call' = [op |-> "on_rate", index |-> index, value |-> rating, text |-> "",
                before |-> reviews]
    /\ edits' = edits + 1
    /\ UNCHANGED <<server, payload, loading, submission_status, stars, loadTask,
                   subs, clicked, writes, lastDone, pointer, glyph>>

CallOnInput(index, value) ==
    /\ edits < MaxEdits
    /\ reviews' = OnInput(reviews, index, value)
    /\ call' = [op |-> "on_input", index |-> index, value |-> 0, text |-> value,
                before |-> reviews]
    /\ edits' = edits + 1
    /\ UNCHANGED <<server, payload, loading, submission_status, stars, loadTask,
                   subs, clicked, writes, lastDone, pointer, glyph>>

NextHandlers ==
    \/ \E index \in 0..MaxIndex, rating \in RatingValues : CallOnRate(index, rating)
    \/ \E index \in 0..MaxIndex, value \in Texts \cup {""} : CallOnInput(index, value)

SpecHandlers == InitHandlers /\ [][NextHandlers]_vars

-----------------------------------------------------------------------------
(* Widget harness: one StarRating with arbitrary props, mounted over a     *)
(* one-record ReviewState, driven by the pointer.  Its handler, when       *)
(* supplied, is the page's on_rate closure of index 0.                     *)

\* initial_rating props considered: None and Some of 0.0, 0.5, .. 5.0, 7.0
InitialRatings == {None} \cup {Some(h) : h \in 0..AsF32(StarCount)} \cup {Some(14)}

InitStar ==
    /\ server = TRUE
    /\ payload = [parsed |-> TRUE, reviews |-> <<Q1>>, error |-> ""]
    /\ reviews = load_questions(payload).val
    /\ loading = FALSE
    /\ submission_status = ""
    /\ \E initial_rating \in InitialRatings, on_rate \in BOOLEAN :
          stars = (0 :> StarRatingNew(initial_rating, on_rate))
    /\ loadTask = "done"
    /\ subs = <<>>
    /\ clicked = <<>>
    /\ writes = <<>>
    /\ lastDone = 0
    /\ edits = 0
    /\ call = NoCall
    /\ pointer = NoPointer
    /\ glyph = NoGlyph

\* The pointer moves onto star star_index of the widget at index.
StarEnter(index, star_index) ==
    /\ pointer = NoPointer
    /\ index \in DOMAIN stars
    /\ pointer' = <<index, star_index>>
    /\ OnMouseEnter(index, star_index)
    /\ UNCHANGED <<server, payload, reviews, loading, submission_status, loadTask,
                   subs, clicked, writes, lastDone, edits, call, glyph>>

\* The pointer leaves the star it is over.
StarLeave ==
    /\ pointer # NoPointer
    /\ pointer' = NoPointer
    /\ OnMouseLeave(pointer[1])
    /\ UNCHANGED <<server, payload, reviews, loading, submission_status, loadTask,
                   subs, clicked, writes, lastDone, edits, call, glyph>>

\* The star under the pointer is clicked.
StarClick ==
    /\ pointer # NoPointer
    /\ OnClick(pointer[1], pointer[2])
    /\ call' = [op |-> "onclick", index |-> pointer[1], value |-> pointer[2],
                text |-> "", before |-> reviews]
    /\ UNCHANGED <<server, payload, loading, submission_status, loadTask,
                   subs, clicked, writes, lastDone, edits, pointer, glyph>>

NextStar ==
    \/ \E index \in DOMAIN stars, star_index \in 1..StarCount : StarEnter(index, star_index)
    \/ StarLeave
    \/ StarClick

SpecStar == InitStar /\ [][NextStar]_vars

-----------------------------------------------------------------------------
(* render_star, applied to arbitrary arguments *)

\* The three glyphs: the black star, the half star and the white star.
Full == "FULL"

Half == "HALF"

Empty == "EMPTY"

\* Mutant: the committed rating is drawn even while a star is hovered.
render_star_no_hover(star_index, hover, rating) ==
    IF rating >= star_index THEN Full
    ELSE IF rating >= star_index - 1 THEN Half
    ELSE Empty

\* Mutant: only the star equal to the rating is drawn full.
render_star_exact(star_index, hover, rating) ==
    LET current_rating == IF hover > 0 THEN hover ELSE rating
    IN  IF current_rating = star_index THEN Full
        ELSE IF current_rating >= star_index - 1 THEN Half
        ELSE Empty

\* fn render_star(star_index: f32, hover: f32, rating: f32); in half-star
\* units star_index - 0.5 is star_index - 1.
render_star(star_index, hover, rating) ==
    LET current_rating == IF hover > 0 THEN hover ELSE rating
    IN  IF current_rating >= star_index THEN Full
        ELSE IF current_rating >= star_index - 1 THEN Half
        ELSE Empty

\* The f32 values 0.0, 0.5, .. 5.0
HalfSteps == 0..AsF32(StarCount)

InitGlyph ==
    /\ server = TRUE
    /\ payload = [parsed |-> TRUE, reviews |-> <<>>, error |-> ""]
    /\ reviews = <<>>
    /\ loading = FALSE
    /\ submission_status = ""
    /\ stars = <<>>
    /\ loadTask = "done"
    /\ subs = <<>>
    /\ clicked = <<>>
    /\ writes = <<>>
    /\ lastDone = 0
    /\ edits = 0
    /\ call = NoCall
    /\ pointer = NoPointer
    /\ \E star_index \in 1..StarCount, hover \in HalfSteps, rating \in HalfSteps :
          glyph = [star_index |-> star_index, hover |-> hover, rating |-> rating,
                   out |-> ""]

\* {render_star(star_index as f32, hover_rating(), rating())}
RenderStar ==
    /\ glyph.out = ""
    /\ glyph' = [glyph EXCEPT
                    !.out = render_star(AsF32(glyph.star_index), glyph.hover, glyph.rating)]
    /\ UNCHANGED <<server, payload, reviews, loading, submission_status, stars,
                   loadTask, subs, clicked, writes, lastDone, edits, call, pointer>>

NextGlyph == RenderStar

SpecGlyph == InitGlyph /\ [][NextGlyph]_vars

Next ==
    \/ LoadDone
    \/ \E index \in DOMAIN stars, star_index \in 1..StarCount : ClickStar(index, star_index)
    \/ \E index \in DOMAIN stars, value \in Texts : InputAdvice(index, value)
    \/ SubmitClick
    \/ \E id \in DOMAIN subs, e \in {""} \cup BackendErrors : SubmitServer(id, e)
    \/ \E id \in DOMAIN subs : SubmitWeb(id)

Spec == Init /\ [][Next]_vars

\* The scheduler polls every spawned task, and the backend answers every
\* call: the load task and each submission task take their step.
\* The sessions of the liveness check: a malformed catalog, and a catalog
\* with a blank and a rated question.
InitLive ==
    /\ Init
    /\ payload.parsed => payload.reviews = <<QBlank, Q1>>

FairSpec ==
    /\ InitLive /\ [][Next]_vars
    /\ WF_vars(LoadDone)
    /\ \A id \in 1..MaxSubmits :
          /\ WF_vars(\E e \in {""} \cup BackendErrors : SubmitServer(id, e))
          /\ WF_vars(SubmitWeb(id))

\* The session with the pointer's hover events over the mounted widgets.
NextHover ==
    \/ Next
    \/ \E index \in DOMAIN stars, star_index \in 1..StarCount : StarEnter(index, star_index)
    \/ StarLeave

\* The sessions with hover events: a catalog with a rated question, and one
\* with a blank and an unrated question.
HoverCatalogs == { <<Q2Rated>>, <<QBlank, Q1>> }

InitHover ==
    /\ server \in BOOLEAN
    /\ payload \in {[parsed |-> TRUE, reviews |-> rs, error |-> ""] :
                       rs \in HoverCatalogs}
    /\ reviews = <<>>
    /\ loading = TRUE
    /\ submission_status = ""
    /\ stars = <<>>
    /\ loadTask = "pending"
    /\ subs = <<>>
    /\ clicked = <<>>
    /\ writes = <<>>
    /\ lastDone = 0
    /\ edits = 0
    /\ call = NoCall
    /\ pointer = NoPointer
    /\ glyph = NoGlyph

SpecHover == InitHover /\ [][NextHover]_vars

-----------------------------------------------------------------------------
(* Claims *)

InBounds(index, rs) == index >= 0 /\ index < Len(rs)

\* clamp(v, 0, 5) on an f32 in half-star units
Clamp05(h) == IF h < 0 THEN 0 ELSE IF h > 10 THEN 10 ELSE h

\* C1: in every reachable state of a session the rating of every Review
\* record of ReviewState is within [0,5].
C1_RatingWithin05 ==
    \A i \in DOMAIN reviews : reviews[i].rating \in 0..5

C3_RateStoresClamp ==
    (call.op = "on_rate" /\ InBounds(call.index, call.before)) =>
        reviews[call.index + 1].rating = AsU8(Clamp05(call.value))

\* C4: a rating update or an advice update addressed to an index outside
\* [0, len(reviews)) leaves ReviewState unchanged: no record modified, no
\* growth.
C4_OutOfBoundsNoop ==
    (call.op \in {"on_rate", "on_input"} /\ ~InBounds(call.index, call.before)) =>
        reviews = call.before

C4_Witness ==
    /\ call.op = "on_rate" /\ call.value = 14
    /\ Len(call.before) = 3 /\ call.index = 3
    /\ reviews = call.before

\* C5: an in-bounds rating update at index i changes only the rating of
\* record i, an in-bounds advice update at index i changes only the advice of
\* record i and stores the text verbatim; the other records, every category
\* and question, and the length and order of ReviewState never change once
\* seeded.
C5_UpdateFrame ==
    [][ /\ \A index \in DOMAIN stars, star_index \in 1..StarCount :
              ClickStar(index, star_index) =>
                  reviews' = [reviews EXCEPT ![index + 1].rating = star_index]
        /\ \A index \in DOMAIN stars, value \in Texts :
              InputAdvice(index, value) =>
                  reviews' = [reviews EXCEPT ![index + 1].advice = value]
        /\ loadTask = "done" =>
              /\ Len(reviews') = Len(reviews)
              /\ \A i \in DOMAIN reviews :
                    /\ reviews'[i].category = reviews[i].category
                    /\ reviews'[i].question = reviews[i].question
                    /\ reviews'[i].rating = reviews[i].rating
                       \/ reviews'[i].advice = reviews[i].advice
              /\ \A i, j \in DOMAIN reviews :
                    i # j => reviews'[i] = reviews[i] \/ reviews'[j] = reviews[j]
      ]_vars

C5_Witness ==
    /\ Len(reviews) = 3
    /\ reviews[1] = [Q2Rated EXCEPT !.advice = "fine"]
    /\ reviews[2] = QBlank
    /\ reviews[3] = [Q1 EXCEPT !.rating = 4]

\* C6: the sequence a submission writes is exactly the content of
\* ReviewState at the moment of its submit action, every record included;
\* edits made while the submission is pending do not change it.
C6_WritesSnapshot ==
    \A id \in DOMAIN writes : \A k \in DOMAIN writes[id] :
        writes[id][k].docs = clicked[id].reviews

C6_Witness ==
    \E id \in DOMAIN writes :
        /\ Len(writes[id]) = 1
        /\ writes[id][1].docs # reviews
        /\ \E i \in DOMAIN writes[id][1].docs :
              /\ writes[id][1].docs[i].rating = 0
              /\ writes[id][1].docs[i].advice = ""

\* C7 as stated: when the backend write of a submission fails with message
\* m, the status once that submission completes is exactly m.
C7_StatusIsMessage ==
    (lastDone # 0 /\ subs[lastDone].err # "") =>
        submission_status = subs[lastDone].err

\* C7 amended: when the backend write of a submission fails with message m,
\* the status once that submission completes is "Error submitting reviews: "
\* followed by m, verbatim.
C7_StatusIsPrefixedMessage ==
    (lastDone # 0 /\ subs[lastDone].err # "") =>
        submission_status = "Error submitting reviews: " \o subs[lastDone].err

C7_Witness ==
    /\ lastDone # 0
    /\ subs[lastDone].err = "duplicate key"
    /\ submission_status = "Error submitting reviews: duplicate key"

\* C8: a failed submission leaves ReviewState as it was, the form stays
\* mounted and the catalog is not reloaded; a further submit action is
\* accepted and spawns a new task on the current ReviewState.
C8_FailureKeepsStateAndSubmit ==
    /\ [][ /\ \A id \in DOMAIN subs, e \in BackendErrors :
                 SubmitServer(id, e) =>
                     reviews' = reviews /\ ~loading' /\ loadTask' = loadTask
           /\ SubmitClick =>
                 /\ Len(subs') = Len(subs) + 1
                 /\ subs'[Len(subs')].reviews_data = reviews
                 /\ subs'[Len(subs')].pc = "spawned"
         ]_vars
    /\ [](( \E id \in DOMAIN subs : subs[id].pc = "done" /\ subs[id].err # "") =>
             /\ ~loading
             /\ Len(subs) < MaxSubmits => ENABLED SubmitClick)

C8_Witness ==
    /\ Len(subs) = 2
    /\ subs[1].pc = "done" /\ subs[1].err = "duplicate key"
    /\ clicked[2].status = "Error submitting reviews: duplicate key"
    /\ reviews # <<>> /\ clicked[1].reviews = reviews
    /\ Len(writes[2]) = 1 /\ writes[2][1].docs = reviews /\ writes[2][1].err = ""

\* The status a completed submission reports.
Outcome(id) ==
    IF server
    THEN IF subs[id].err = ""
         THEN "Reviews submitted successfully!"
         ELSE "Error submitting reviews: " \o subs[id].err
    ELSE "Would submit " \o ToString(Len(clicked[id].reviews)) \o " reviews (web build)"

\* C9: a submit action is accepted while an earlier submission is pending,
\* every completed submission of the server build has performed its write,
\* and the status holds the outcome of the submission that completed last,
\* whatever the order in which the submissions were started.
C9_LastCompletedWins ==
    /\ (FormMounted /\ Len(subs) < MaxSubmits) => ENABLED SubmitClick
    /\ \A id \in DOMAIN subs :
          (server /\ subs[id].pc = "done") => Len(writes[id]) = 1
    /\ lastDone # 0 => submission_status = Outcome(lastDone)

C9_Witness ==
    /\ Len(subs) = 2
    /\ subs[1].pc = "done" /\ subs[2].pc = "done"
    /\ lastDone = 1
    /\ subs[1].err = "duplicate key" /\ subs[2].err = ""
    /\ Len(writes[1]) = 1 /\ Len(writes[2]) = 1
    /\ submission_status = "Error submitting reviews: duplicate key"

\* C10: while the catalog load is pending (loading is true) ReviewState is
\* empty, no star-rating widget or advice field is mounted and no submit
\* action is accepted: no rating update, advice update or submission has
\* occurred.
C10_NothingWhileLoading ==
    loading =>
        /\ reviews = <<>>
        /\ DOMAIN stars = {}
        /\ subs = <<>> /\ clicked = <<>> /\ writes = <<>>
        /\ edits = 0
        /\ ~ENABLED SubmitClick

C10_Witness ==
    /\ loading /\ loadTask = "pending"
    /\ payload.parsed /\ Len(payload.reviews) = 3


\* C11: when the catalog payload is malformed the load ends in an error
\* state: the loading flag is cleared, the status holds the load error's
\* message behind "Error loading questions: " until a submission completes,
\* ReviewState stays empty for the whole session and no question block
\* (no widget) is mounted.
C11_MalformedCatalogErrorState ==
    (loadTask = "done" /\ ~payload.parsed) =>
        /\ ~loading
        /\ reviews = <<>>
        /\ DOMAIN stars = {}
        /\ lastDone = 0 =>
              /\ submission_status # ""
              /\ submission_status = "Error loading questions: " \o payload.error

C11_Witness ==
    /\ loadTask = "done" /\ ~payload.parsed
    /\ ~loading /\ reviews = <<>>
    /\ submission_status = "Error loading questions: expected value at line 1 column 1"


WholeStars == {AsF32(k) : k \in 1..StarCount}

\* C12: every click on star k sets the widget's rating to k and hands k to
\* the handler when one is supplied; after any sequence of hover and click
\* events the rating is the supplied initial value (0.0 when none) or a
\* whole number of stars 1..5, never a half star produced by interaction.
C12_ClickCommitsWholeStar ==
    /\ \A i \in DOMAIN stars :
          \/ stars[i].rating = UnwrapOr(stars[i].initial_rating, 0)
          \/ stars[i].rating \in WholeStars
    /\ call.op = "onclick" =>
          /\ stars[call.index].rating = 2 * call.value
          /\ stars[call.index].on_rate =>
                reviews[call.index + 1].rating = call.value
          /\ ~stars[call.index].on_rate => reviews = call.before

C12_Witness ==
    /\ call.op = "onclick" /\ call.value = 3
    /\ stars[0].initial_rating = Some(5)
    /\ stars[0].rating = 6
    /\ stars[0].on_rate /\ reviews[1].rating = 3

\* C13: hover never persists: hover_rating is 0 in every widget the pointer
\* is not over and is the index of the star under the pointer otherwise,
\* and a hover event (the pointer entering or leaving a star) never changes
\* a widget's rating.
C13_HoverFollowsPointer ==
    /\ [](\A i \in DOMAIN stars :
             stars[i].hover_rating =
                 IF pointer # NoPointer /\ pointer[1] = i THEN 2 * pointer[2] ELSE 0)
    /\ [][pointer' # pointer =>
             \A i \in DOMAIN stars : stars'[i].rating = stars[i].rating]_vars

C13_Witness ==
    /\ pointer = NoPointer
    /\ call.op = "onclick" /\ call.value = 4
    /\ stars[0].hover_rating = 0 /\ stars[0].rating = 8


\* effective = hoverRating if hoverRating > 0 else currentRating
Effective(hover, rating) == IF hover > 0 THEN hover ELSE rating

\* EMPTY < HALF < FULL
Rank(g) == IF g = "FULL" THEN 2 ELSE IF g = "HALF" THEN 1 ELSE 0

\* C14: for every star 1..5 and every hover and committed rating in half
\* steps of [0,5], the glyph is FULL if effective >= star, HALF if
\* effective >= star - 0.5 and EMPTY otherwise, where effective is the hover
\* value when it is positive and the committed rating otherwise; so a hover
\* overrides any committed rating.
C14_GlyphOfEffective ==
    glyph.out # "" =>
        LET e2 == Effective(glyph.hover, glyph.rating)
            k == glyph.star_index
        IN  /\ (e2 >= 2 * k) => glyph.out = "FULL"
            /\ (e2 < 2 * k /\ e2 >= 2 * k - 1) => glyph.out = "HALF"
            /\ (e2 < 2 * k - 1) => glyph.out = "EMPTY"
            /\ glyph.hover > 0 =>
                  \A r \in HalfSteps :
                      render_star(AsF32(k), glyph.hover, r) = glyph.out

\* renderGlyph(2, 3, 1) = FULL
C14_Witness ==
    glyph = [star_index |-> 2, hover |-> 6, rating |-> 2, out |-> "FULL"]

\* C15: the glyph is monotonic in the effective rating: for a fixed star,
\* arguments with a larger or equal effective rating never give a glyph of
\* lower rank (EMPTY < HALF < FULL).
C15_GlyphMonotonic ==
    glyph.out # "" =>
        \A hover \in HalfSteps, rating \in HalfSteps :
            Effective(glyph.hover, glyph.rating) <= Effective(hover, rating) =>
                Rank(glyph.out) <=
                    Rank(render_star(AsF32(glyph.star_index), hover, rating))

C15_Witness ==
    glyph = [star_index |-> 3, hover |-> 0, rating |-> 5, out |-> "HALF"]


\* C16: in the build without a backend every submission performs no backend
\* write and ends with the status "Would submit N reviews (web build)",
\* N the number of records of ReviewState at its submit action; no
\* submission ends in an error status.
C16_WebBuildReportsCount ==
    ~server =>
        /\ \A id \in DOMAIN writes : writes[id] = <<>>
        /\ \A id \in DOMAIN subs : subs[id].err = ""
        /\ lastDone # 0 =>
              submission_status =
                  "Would submit " \o ToString(Len(clicked[lastDone].reviews))
                      \o " reviews (web build)"

C16_Witness ==
    /\ ~server
    /\ lastDone = 2 /\ subs[1].pc = "done"
    /\ submission_status = "Would submit 3 reviews (web build)"
    /\ writes = << <<>>, <<>> >>

\* C17: there is no automatic retry: each submit action causes at most one
\* call of the backend write, made by its own task, so the write attempts
\* never outnumber the submit actions and a failed write is attempted again
\* only by the task of a new submit action.
C17_NoAutomaticRetry ==
    /\ Len(writes) = Len(clicked)
    /\ \A id \in DOMAIN writes :
          /\ Len(writes[id]) <= 1
          /\ Len(writes[id]) = 1 => subs[id].pc = "done"
          /\ (subs[id].pc = "done" /\ subs[id].err # "") =>
                /\ Len(writes[id]) = 1
                /\ writes[id][1].err = subs[id].err

C17_Witness ==
    /\ Len(clicked) = 2
    /\ subs[1].pc = "done" /\ subs[1].err = "duplicate key"
    /\ clicked[2].status = "Error submitting reviews: duplicate key"
    /\ Len(writes[1]) = 1 /\ Len(writes[2]) = 1
    /\ writes[2][1].err = "duplicate key"


\* C18: a spawned load or submission is never cancelled: given that tasks
\* are polled and the backend answers, the load clears the loading flag on
\* its success and on its error path, and every started submission comes to
\* write its outcome to the status.
C18_TasksRunToCompletion ==
    /\ (loadTask = "pending") ~> (loadTask = "done" /\ ~loading)
    /\ \A id \in 1..MaxSubmits :
          (id \in DOMAIN subs /\ subs[id].pc = "spawned")
              ~> (lastDone = id /\ submission_status = Outcome(id))

C18_Witness ==
    /\ ~payload.parsed /\ loadTask = "done" /\ ~loading
    /\ Len(subs) = 2
    /\ subs[1].pc = "done" /\ subs[2].pc = "done"
    /\ lastDone = 1


\* C19: a catalog entry whose question is blank keeps its slot in
\* ReviewState, so every record stays at its catalog index and the widget
\* mounted for entry k carries index k and updates record k; no widget is
\* mounted for a blank entry and its record never changes.
C19_BlankKeepsSlot ==
    (loadTask = "done" /\ payload.parsed) =>
        /\ Len(reviews) = Len(payload.reviews)
        /\ \A i \in DOMAIN reviews :
              /\ reviews[i].category = payload.reviews[i].category
              /\ reviews[i].question = payload.reviews[i].question
              /\ IsBlank(payload.reviews[i].question) =>
                    /\ (i - 1) \notin DOMAIN stars
                    /\ reviews[i] = payload.reviews[i]
              /\ ~IsBlank(payload.reviews[i].question) =>
                    /\ (i - 1) \in DOMAIN stars
                    /\ stars[i - 1].rating # 2 * payload.reviews[i].rating =>
                          reviews[i].rating # payload.reviews[i].rating

C19_Witness ==
    /\ payload.reviews = <<Q2Rated, QBlank, Q1>>
    /\ edits = 2
    /\ DOMAIN stars = {0, 2}
    /\ reviews[2] = QBlank
    /\ reviews[3].rating = 4 /\ reviews[3].advice = "fine"

\* C20: after the load the rating held by the StarRating widget bound to
\* index i equals the rating of record i of ReviewState, which is what a
\* submission taken in that state would write, whatever clicks, hovers,
\* advice edits and submissions have happened.
C20_WidgetMatchesRecord ==
    \A i \in DOMAIN stars :
        /\ i + 1 \in DOMAIN reviews
        /\ stars[i].rating = 2 * reviews[i + 1].rating
        /\ stars[i].rating = 2 * Snapshot[i + 1].rating

C20_Witness ==
    /\ payload.reviews = <<Q2Rated>>
    /\ pointer = <<0, 5>>
    /\ stars[0].initial_rating.val = 14
    /\ stars[0].rating = 6 /\ reviews[1].rating = 3
    /\ reviews[1].advice = "fine"
    /\ lastDone = 1

====
